---- MODULE Spec2Model ----
(***************************************************************************)
(* Luckfox Lyra I2C keyboard/mouse driver (lyra_i2c_keyboard.c) as a state *)
(* machine: the driver data (struct lyra_kbd_data), the delayed work item  *)
(* that polls the peripheral, the locals of the poll handler while a tick  *)
(* is in flight, and the events handed to the input layer.                 *)
(***************************************************************************)
EXTENDS Integers, Sequences, FiniteSets

(***************************************************************************)
(* Program constants.                                                      *)
(***************************************************************************)
MAX_KEYCODES == 53
POLL_INTERVAL_MS == 10
FIFO_MAX_READ == 16

FIFO_EVENT_NONE == 0
FIFO_EVENT_PRESS == 1
FIFO_EVENT_HOLD == 2
FIFO_EVENT_RELEASE == 3

KEY_LEFTCTRL == 29
KEY_LEFTSHIFT == 42
KEY_LEFTALT == 56
KEY_POWER == 116
KEY_FN == 464
KEY_RIGHTSHIFT == 54
REL_X == 0
REL_Y == 1

\* lyra_kbd_read_reg returns a negative errno when the transfer fails.
ReadFail == -1
\* A local of the handler that holds no register value (not read in this step).
NotRead == -2

(***************************************************************************)
(* Bounds of the model.                                                    *)
(***************************************************************************)
\* Entries other than "none" the peripheral queues per tick in the keyboard
\* environments (the flooding environment never reports an empty queue).
MaxFifoDepth == 2

(***************************************************************************)
(* Keymap layers: index = keycode (0..52), value = Linux key code.         *)
(***************************************************************************)
KeymapNormalTable ==
  <<  5,   6,   8,   7,   9,  10,  11,      \*  0.. 6: 4 5 7 6 8 9 0
     19,  20,  22,  21,  23,  24,  25,      \*  7..13: R T U Y I O P
     33,  34,  51,  35,  52,  38,  28,      \* 14..20: F G , H . L ENTER
      4,  18,  46,  32,  42,  50,  57,      \* 21..27: 3 E C D LSHIFT M SPACE
      3,   1,  56,  15,  47,  29,  14,      \* 28..34: 2 ESC LALT TAB V LCTRL BKSP
      2,  16, 464,  44,  48,  49,  54,      \* 35..41: 1 Q FN Z B N RSHIFT
     17,  30,  31,  45,  36,  37,           \* 42..47: W A S X J K
    272, 108, 103, 106, 105 >>              \* 48..52: BTN_LEFT DOWN UP RIGHT LEFT

KeymapShiftTable ==
  <<  5,   6,   8,   7,   9,  10,  11,
     19,  20,  22,  21,  23,  24,  25,
     33,  34,  51,  35,  52,  38,  28,
      4,  18,  46,  32,  42,  50,  57,
      3,   1,  56,  15,  47,  29,  14,
      2,  16, 464,  44,  48,  49,  54,
     17,  30,  31,  45,  36,  37,
    273, 108, 103, 106, 105 >>              \* 48: BTN_RIGHT

KeymapFnTable ==
  << 62,  63,  65,  64,  66,  67,  68,      \*  0.. 6: F4 F5 F7 F6 F8 F9 F10
     12,  12,  13,  13,  43,  87,  88,      \*  7..13: - - = = \ F11 F12
     40,  26,  53,  27, 107, 102,  28,      \* 14..20: ' { / } END HOME ENTER
     61,  41,  39,  39,  42,  53,  57,      \* 21..27: F3 ` ; ; LSHIFT / SPACE
     60,   1,  56,  15,  40,  29,  14,      \* 28..34: F2 ESC LALT TAB ' LCTRL BKSP
     59,  41, 464,  86,  26,  27,  54,      \* 35..41: F1 ` FN 102ND [ ] RSHIFT
    103, 105, 106, 108,  30,  48,           \* 42..47: UP LEFT RIGHT DOWN A B
    274, 108, 103, 106, 105 >>              \* 48..52: BTN_MIDDLE DOWN UP RIGHT LEFT

keymap_normal(keycode) == KeymapNormalTable[keycode + 1]
keymap_shift(keycode) == KeymapShiftTable[keycode + 1]
keymap_fn(keycode) == KeymapFnTable[keycode + 1]

\* Keycodes whose events go through the keymap layers: all but shift (25, 41),
\* alt (30), ctrl (33) and fn (37).
ModifierKeycodes == {25, 30, 33, 37, 41}
LayerKeycodes == (0 .. (MAX_KEYCODES - 1)) \ ModifierKeycodes

(***************************************************************************)
(* Register decoding.                                                      *)
(***************************************************************************)
\* (v & BIT(n)) != 0
BitSet(v, n) == (v \div (2 ^ n)) % 2 = 1

\* fifo_data & FIFO_EVENT_TYPE_MASK
EventType(fifo_data) == fifo_data % 4
\* Mutant: the keycode bits are masked but not shifted down.
Keycode_NoShift(fifo_data) == (fifo_data % 256) - (fifo_data % 4)

\* (fifo_data & FIFO_KEYCODE_MASK) >> FIFO_KEYCODE_SHIFT
Keycode(fifo_data) == (fifo_data % 256) \div 4

StatusShift(key_status) == BitSet(key_status, 0)
StatusAlt(key_status) == BitSet(key_status, 1)
StatusFn(key_status) == BitSet(key_status, 2)

IntFifoOverflow(v) == BitSet(v, 0)
\* Mutant: the alt-change bit is left out of the mask.
IntModifierChange_NoAlt(v) == BitSet(v, 1) \/ BitSet(v, 2)

IntModifierChange(v) == BitSet(v, 1) \/ BitSet(v, 2) \/ BitSet(v, 3)
IntKeyEvent(v) == BitSet(v, 4)
IntMouseEvent(v) == BitSet(v, 5)
IntPowerBtn(v) == BitSet(v, 6)

(***************************************************************************)
(* Events handed to the input layer.                                       *)
(***************************************************************************)
Ev(dev, type, code, value) ==
  [dev |-> dev, type |-> type, code |-> code, value |-> value]
\* input_report_key(kbd_input, key, pressed)
KeyEv(key, pressed) == Ev("kbd", "key", key, IF pressed THEN 1 ELSE 0)
\* input_event(kbd_input, EV_MSC, MSC_SCAN, keycode)
ScanEv(keycode) == Ev("kbd", "msc", 4, keycode)
\* input_sync(kbd_input)
KbdSync == Ev("kbd", "syn", 0, 0)
\* input_report_rel(mouse_input, axis, amount)
RelEv(axis, amount) == Ev("mouse", "rel", axis, amount)
\* input_sync(mouse_input)
MouseSync == Ev("mouse", "syn", 0, 0)

(***************************************************************************)
(* lyra_kbd_process_key_event as a function of the key-status read.        *)
(***************************************************************************)
\* Mutant: shift is tested before fn.
ResolveKey_ShiftFirst(keycode, shift, fn) ==
  IF shift THEN keymap_shift(keycode)
  ELSE IF fn THEN keymap_fn(keycode)
  ELSE keymap_normal(keycode)

\* Layer selection of a press (and of a release without a record).
ResolveKey(keycode, shift, fn) ==
  IF fn THEN keymap_fn(keycode)
  ELSE IF shift THEN keymap_shift(keycode)
  ELSE keymap_normal(keycode)

\* Mutant: without a record the release always takes the normal layer.
ReleaseKey_NormalFallback(lkp, keycode, shift, fn) ==
  IF lkp[keycode] = 0 THEN keymap_normal(keycode) ELSE lkp[keycode]

\* Mutant: the release is resolved again from the current modifiers.
ReleaseKey_Recompute(lkp, keycode, shift, fn) == ResolveKey(keycode, shift, fn)

\* The key a release reports: the recorded one, else the current layers'.
ReleaseKey(lkp, keycode, shift, fn) ==
  IF lkp[keycode] = 0 THEN ResolveKey(keycode, shift, fn) ELSE lkp[keycode]

\* Mutant: the press is reported but not recorded.
PressBranch_NoRecord(lkp, keycode, shift, fn) ==
  LET key == ResolveKey(keycode, shift, fn) IN
  [lkp |-> lkp,
   out |-> <<ScanEv(keycode), KeyEv(key, TRUE), KbdSync>>]

\* The pressed branch: record the key, report scan code and key.
PressBranch(lkp, keycode, shift, fn) ==
  LET key == ResolveKey(keycode, shift, fn) IN
  [lkp |-> [lkp EXCEPT ![keycode] = key],
   out |-> <<ScanEv(keycode), KeyEv(key, TRUE), KbdSync>>]

\* The released branch: report the key, clear the record.
ReleaseBranch(lkp, keycode, shift, fn) ==
  LET key == ReleaseKey(lkp, keycode, shift, fn) IN
  [lkp |-> [lkp EXCEPT ![keycode] = 0],
   out |-> <<ScanEv(keycode), KeyEv(key, FALSE), KbdSync>>]

\* Whether the handler reads REG_KEY_STATUS for this keycode at all.
ReadsKeyStatus(keycode) == keycode < MAX_KEYCODES

\* Mutant: the fn position (37) is not filtered out and goes on to the
\* keymap layers.
ProcessKeyEvent_NoFnSkip(lkp, keycode, pressed, ret) ==
  IF keycode >= MAX_KEYCODES THEN [lkp |-> lkp, out |-> <<>>]
  ELSE IF ret < 0 THEN [lkp |-> lkp, out |-> <<>>]
  ELSE IF keycode = 25 \/ keycode = 41 THEN [lkp |-> lkp, out |-> <<>>]
  ELSE IF keycode = 30 THEN [lkp |-> lkp, out |-> <<>>]
  ELSE IF keycode = 33
    THEN [lkp |-> lkp, out |-> <<KeyEv(KEY_LEFTCTRL, pressed), KbdSync>>]
  ELSE IF pressed
    THEN PressBranch(lkp, keycode, StatusShift(ret), StatusFn(ret))
  ELSE ReleaseBranch(lkp, keycode, StatusShift(ret), StatusFn(ret))

\* Mutant: the ctrl position (33) is not handled apart and goes on to the
\* keymap layers.
ProcessKeyEvent_NoCtrlBranch(lkp, keycode, pressed, ret) ==
  IF keycode >= MAX_KEYCODES THEN [lkp |-> lkp, out |-> <<>>]
  ELSE IF ret < 0 THEN [lkp |-> lkp, out |-> <<>>]
  ELSE IF keycode = 25 \/ keycode = 41 THEN [lkp |-> lkp, out |-> <<>>]
  ELSE IF keycode = 30 THEN [lkp |-> lkp, out |-> <<>>]
  ELSE IF keycode = 37 THEN [lkp |-> lkp, out |-> <<>>]
  ELSE IF pressed
    THEN PressBranch(lkp, keycode, StatusShift(ret), StatusFn(ret))
  ELSE ReleaseBranch(lkp, keycode, StatusShift(ret), StatusFn(ret))

\* Mutant: an out-of-range keycode leaves through the common exit, which
\* emits the sync marker.
ProcessKeyEvent_SyncInvalid(lkp, keycode, pressed, ret) ==
  IF keycode >= MAX_KEYCODES THEN [lkp |-> lkp, out |-> <<KbdSync>>]
  ELSE IF ret < 0 THEN [lkp |-> lkp, out |-> <<>>]
  ELSE IF keycode = 25 \/ keycode = 41 THEN [lkp |-> lkp, out |-> <<>>]
  ELSE IF keycode = 30 THEN [lkp |-> lkp, out |-> <<>>]
  ELSE IF keycode = 33
    THEN [lkp |-> lkp, out |-> <<KeyEv(KEY_LEFTCTRL, pressed), KbdSync>>]
  ELSE IF keycode = 37 THEN [lkp |-> lkp, out |-> <<>>]
  ELSE IF pressed
    THEN PressBranch(lkp, keycode, StatusShift(ret), StatusFn(ret))
  ELSE ReleaseBranch(lkp, keycode, StatusShift(ret), StatusFn(ret))

\* ret: the result of the REG_KEY_STATUS read (NotRead when none is made).
ProcessKeyEvent(lkp, keycode, pressed, ret) ==
  IF keycode >= MAX_KEYCODES THEN [lkp |-> lkp, out |-> <<>>]
  ELSE IF ret < 0 THEN [lkp |-> lkp, out |-> <<>>]
  ELSE IF keycode = 25 \/ keycode = 41 THEN [lkp |-> lkp, out |-> <<>>]
  ELSE IF keycode = 30 THEN [lkp |-> lkp, out |-> <<>>]
  ELSE IF keycode = 33
    THEN [lkp |-> lkp, out |-> <<KeyEv(KEY_LEFTCTRL, pressed), KbdSync>>]
  ELSE IF keycode = 37 THEN [lkp |-> lkp, out |-> <<>>]
  ELSE IF pressed
    THEN PressBranch(lkp, keycode, StatusShift(ret), StatusFn(ret))
  ELSE ReleaseBranch(lkp, keycode, StatusShift(ret), StatusFn(ret))

(***************************************************************************)
(* lyra_kbd_process_mouse, lyra_kbd_sync_modifiers.                        *)
(***************************************************************************)
\* (s8)ret
SignedByte(ret) == IF ret % 256 >= 128 THEN (ret % 256) - 256 ELSE ret % 256

\* C integer division: truncation toward zero.
TruncDiv(a, b) == IF a >= 0 THEN a \div b ELSE -((-a) \div b)

\* Mutant: a quotient of 0 is reported as it is.
ScaleDelta_NoMinimum(delta, speed) == TruncDiv(delta * speed, 100)

\* adjusted = (delta * speed) / 100, forced to +-1 when that is 0.
ScaleDelta(delta, speed) ==
  LET adjusted == TruncDiv(delta * speed, 100) IN
  IF adjusted = 0 /\ delta # 0 THEN (IF delta > 0 THEN 1 ELSE -1) ELSE adjusted

\* Mutant: a failed REG_MOUSE_Y read does not end the handler.
AfterMouseY_GoesOn(rety) == "report_x"

\* Where the handler goes after the REG_MOUSE_Y read.
AfterMouseY(rety) == IF rety < 0 THEN "power" ELSE "report_x"

\* if (delta_x != 0) { ... input_report_rel(REL_X, adjusted_x); }
MouseReportX(retx, speed_x) ==
  LET delta_x == SignedByte(retx)
  IN IF delta_x # 0 THEN <<RelEv(REL_X, ScaleDelta(delta_x, speed_x))>> ELSE <<>>

\* Mutant: the sync is sent whether or not anything moved.
MouseReportY_AlwaysSync(retx, rety, speed_y) ==
  LET delta_y == SignedByte(rety)
  IN (IF delta_y # 0 THEN <<RelEv(REL_Y, ScaleDelta(delta_y, speed_y))>> ELSE <<>>)
     \o <<MouseSync>>

\* if (delta_y != 0) { ... input_report_rel(REL_Y, adjusted_y); }
\* if (delta_x != 0 || delta_y != 0) input_sync(mouse_input);
MouseReportY(retx, rety, speed_y) ==
  LET delta_x == SignedByte(retx)
      delta_y == SignedByte(rety)
  IN (IF delta_y # 0 THEN <<RelEv(REL_Y, ScaleDelta(delta_y, speed_y))>> ELSE <<>>)
     \o (IF delta_x # 0 \/ delta_y # 0 THEN <<MouseSync>> ELSE <<>>)

\* ret: the result of the REG_KEY_STATUS read.
SyncModifiers(ret) ==
  IF ret < 0 THEN <<>>
  ELSE <<KeyEv(KEY_LEFTSHIFT, StatusShift(ret)), KeyEv(KEY_LEFTALT, StatusAlt(ret)), KbdSync>>

(***************************************************************************)
(* State.                                                                  *)
(***************************************************************************)
VARIABLES
  hw,                 \* what the peripheral and the configuration writer produce in this run
  phase,              \* driver lifecycle: unbound, probe_failed, probe_sync, probe_schedule,
                      \* bound, suspending, suspended, removing, remove_sysfs, removed
  last_key_pressed,   \* kbd->last_key_pressed[MAX_KEYCODES]; 0 = no record
  mouse_speed_x,      \* kbd->mouse_speed_x
  mouse_speed_y,      \* kbd->mouse_speed_y
  power_btn_pressed,  \* kbd->power_btn_pressed
  poll_interval_ms,   \* kbd->poll_interval_ms
  pending,            \* kbd->poll_work is armed (timer set or queued)
  armed_ms,           \* the delay it was armed with (0 when not armed)
  canceling,          \* a cancel_delayed_work_sync of poll_work is in progress
  pc,                 \* position of lyra_kbd_poll_work; "idle" when it is not executing
  int_status,         \* its local int_status (NotRead: not read, or the read failed)
  i,                  \* lyra_kbd_process_fifo's loop counter
  fifo_data,          \* result of the REG_FIFO_ACCESS read of the entry being processed
  key_status,         \* result of the last step's REG_KEY_STATUS read
  mouse_x,            \* result of the REG_MOUSE_X read of the running process_mouse
  mouse_y,            \* result of the REG_MOUSE_Y read of the running process_mouse
  emitted,            \* events the last step handed to the input layer
  store,              \* the sysfs write the last step made (NoStore: none)
  fifo_reads,         \* history: REG_FIFO_ACCESS reads of the current drain
  forwarded,          \* history: entries of the current drain passed to process_key_event
  last_event,         \* history: per keycode, the last key event reported with its scan code
  layer_down,         \* history: keymap keys whose last reported event is a press
  last_power          \* history: value of the last KEY_POWER event (0 before the first)

vars == <<hw, phase, last_key_pressed, mouse_speed_x, mouse_speed_y, power_btn_pressed,
          poll_interval_ms, pending, armed_ms, canceling, pc, int_status, i, fifo_data,
          key_status, mouse_x, mouse_y, emitted, store, fifo_reads, forwarded,
          last_event, layer_down, last_power>>

driver == <<last_key_pressed, mouse_speed_x, mouse_speed_y, power_btn_pressed,
            poll_interval_ms>>
work == <<pending, armed_ms, canceling>>
history == <<last_event, layer_down, last_power>>

NoEvent == [key |-> 0, value |-> 0]
NoStore == [attr |-> "none", val |-> 0, ret |-> "none"]

(***************************************************************************)
(* The environments a run draws its inputs from.  A read result is a byte  *)
(* or ReadFail.                                                            *)
(***************************************************************************)
FifoBytes(keys, types) == {4 * k + t : k \in keys, t \in types}

\* The keycodes one run's FIFO entries carry: each keycode 0..63 alone, and
\* pairs that share a logical key (7/8: fn MINUS; 43/46: A normal / A fn).
KeySets == {{k} : k \in 0 .. 63} \cup {{7, 8}, {43, 46}}

\* A keyboard: key events only; reads fail or not according to reliable.
KeysEnv(keys, reliable) ==
  [kind     |-> "keys",
   reliable |-> reliable,
   fifo     |-> FifoBytes(keys, 0 .. 3) \cup (IF reliable THEN {} ELSE {ReadFail}),
   depth    |-> MaxFifoDepth,
   status   |-> (0 .. 7) \cup (IF reliable THEN {} ELSE {ReadFail}),
   ints     |-> {16} \cup (IF reliable THEN {} ELSE {ReadFail}),
   deltas   |-> {},
   deltas_y |-> {},
   speeds   |-> {},
   intervals |-> {}]

\* A queue that never reports "none".
FloodEnv ==
  [kind     |-> "flood",
   reliable |-> TRUE,
   fifo     |-> FifoBytes({5}, 1 .. 3),
   depth    |-> FIFO_MAX_READ + 1,
   status   |-> {0, 4},
   ints     |-> {16},
   deltas   |-> {},
   deltas_y |-> {},
   speeds   |-> {},
   intervals |-> {}]

\* Everything but key events: gates, mouse, power button.
SystemEnv ==
  [kind     |-> "system",
   reliable |-> FALSE,
   fifo     |-> {0, 22, ReadFail},
   depth    |-> 1,
   status   |-> {0, 1, 2, 3, ReadFail},
   ints     |-> {0, 1, 2, 4, 8, 16, 32, 64, 127, ReadFail},
   deltas   |-> {0, 1, 255, 128, ReadFail},
   deltas_y |-> {0, 1, 255, 128, ReadFail},
   speeds   |-> {},
   intervals |-> {}]

\* A keyboard that sends releases of keycode 48 and never a press.
SpuriousEnv ==
  [kind     |-> "spurious",
   reliable |-> TRUE,
   fifo     |-> FifoBytes({48}, {FIFO_EVENT_NONE, FIFO_EVENT_RELEASE}),
   depth    |-> MaxFifoDepth,
   status   |-> 0 .. 7,
   ints     |-> {16},
   deltas   |-> {},
   deltas_y |-> {},
   speeds   |-> {},
   intervals |-> {}]

\* Configuration writes at and around the limits of each attribute, between
\* and during ticks that move the mouse.
ConfigEnv ==
  [kind     |-> "config",
   reliable |-> FALSE,
   fifo     |-> {0},
   depth    |-> 1,
   status   |-> {0},
   ints     |-> {32, ReadFail},
   deltas   |-> {3},
   deltas_y |-> {253},
   speeds   |-> {-1, 9, 10, 500, 501},
   intervals |-> {-1, 4, 5, 100, 101}]

\* Every value of the interrupt-status byte, with one fixed answer from each
\* of the other registers.
GateEnv ==
  [kind     |-> "gate",
   reliable |-> FALSE,
   fifo     |-> {0},
   depth    |-> 1,
   status   |-> {3},
   ints     |-> (0 .. 255) \cup {ReadFail},
   deltas   |-> {1},
   deltas_y |-> {1},
   speeds   |-> {},
   intervals |-> {}]

Environments ==
  {KeysEnv(keys, reliable) : keys \in KeySets, reliable \in BOOLEAN}
    \cup {FloodEnv, SystemEnv, GateEnv, ConfigEnv, SpuriousEnv}

\* What a REG_FIFO_ACCESS read can return after i entries of this drain.
FifoReads ==
  IF i < hw.depth THEN hw.fifo
  ELSE {b \in hw.fifo : b = ReadFail \/ EventType(b) = FIFO_EVENT_NONE}

(***************************************************************************)
(* Init: the device exists, the driver is not bound (kbd not allocated).   *)
(***************************************************************************)
Init ==
  /\ hw \in Environments
  /\ phase = "unbound"
  /\ last_key_pressed = [k \in 0 .. (MAX_KEYCODES - 1) |-> 0]
  /\ mouse_speed_x = 0
  /\ mouse_speed_y = 0
  /\ power_btn_pressed = FALSE
  /\ poll_interval_ms = 0
  /\ pending = FALSE
  /\ armed_ms = 0
  /\ canceling = FALSE
  /\ pc = "idle"
  /\ int_status = NotRead
  /\ i = 0
  /\ fifo_data = NotRead
  /\ key_status = NotRead
  /\ mouse_x = NotRead
  /\ mouse_y = NotRead
  /\ emitted = <<>>
  /\ store = NoStore
  /\ fifo_reads = 0
  /\ forwarded = 0
  /\ last_event = [k \in 0 .. (MAX_KEYCODES - 1) |-> NoEvent]
  /\ layer_down = {}
  /\ last_power = 0

(***************************************************************************)
(* The delayed work item.                                                  *)
(***************************************************************************)
\* schedule_delayed_work(&kbd->poll_work, msecs_to_jiffies(ms)): arms the work
\* unless it is already pending or a synchronous cancel holds it.
ScheduleDelayedWork(ms) ==
  IF pending \/ canceling
    THEN UNCHANGED <<pending, armed_ms>>
    ELSE pending' = TRUE /\ armed_ms' = ms

\* The positions of the handler inside lyra_kbd_process_mouse, after its
\* first read.
MouseSteps == {"mouse_y", "report_x", "report_y"}

\* No register is read in this step: what the handler holds of an entry or
\* of a mouse motion it has not finished with stays, the rest is gone.
NoReads ==
  /\ fifo_data' = (IF pc = "key" THEN fifo_data ELSE NotRead)
  /\ key_status' = NotRead
  /\ mouse_x' = (IF pc \in MouseSteps THEN mouse_x ELSE NotRead)
  /\ mouse_y' = (IF pc \in MouseSteps THEN mouse_y ELSE NotRead)

Quiet == NoReads /\ emitted' = <<>>

\* The drain's counters are gone once process_fifo has returned.
DrainReset == i' = 0 /\ fifo_reads' = 0 /\ forwarded' = 0

(***************************************************************************)
(* lyra_kbd_probe, step by step: the configuration defaults and the sysfs  *)
(* group, the initial modifier sync, the first schedule.                   *)
(***************************************************************************)
\* One of the error returns: the adapter check, the allocation, the input
\* devices or sysfs_create_group failed. Nothing is left of the driver.
ProbeFail ==
  /\ phase = "unbound"
  /\ phase' = "probe_failed"
  /\ Quiet
  /\ store' = NoStore
  /\ UNCHANGED <<hw, driver, work, pc, int_status, i, fifo_reads, forwarded, history>>

\* Up to sysfs_create_group: from here on the attribute files are live.
Probe ==
  /\ phase = "unbound"
  /\ phase' = "probe_sync"
  /\ mouse_speed_x' = 100
  /\ mouse_speed_y' = 100
  /\ poll_interval_ms' = POLL_INTERVAL_MS
  /\ Quiet
  /\ store' = NoStore
  /\ UNCHANGED <<hw, last_key_pressed, power_btn_pressed, work, pc, int_status,
                 i, fifo_reads, forwarded, history>>

\* INIT_DELAYED_WORK and lyra_kbd_sync_modifiers(kbd).
ProbeSyncModifiers ==
  /\ phase = "probe_sync"
  /\ phase' = "probe_schedule"
  /\ \E ret \in hw.status :
       /\ key_status' = ret
       /\ emitted' = SyncModifiers(ret)
  /\ fifo_data' = NotRead /\ mouse_x' = NotRead /\ mouse_y' = NotRead
  /\ store' = NoStore
  /\ UNCHANGED <<hw, driver, work, pc, int_status, i, fifo_reads, forwarded, history>>

\* schedule_delayed_work with the interval as it is now; probe returns 0.
ProbeSchedule ==
  /\ phase = "probe_schedule"
  /\ phase' = "bound"
  /\ ScheduleDelayedWork(poll_interval_ms)
  /\ Quiet
  /\ store' = NoStore
  /\ UNCHANGED <<hw, driver, canceling, pc, int_status, i, fifo_reads, forwarded,
                 history>>

(***************************************************************************)
(* lyra_kbd_poll_work, step by step.                                       *)
(***************************************************************************)
\* The timer expires and the workqueue starts the handler: the work is no
\* longer pending, and it is never started while it is still executing.
TimerFire ==
  /\ pending
  /\ pc = "idle"
  /\ pc' = "start"
  /\ pending' = FALSE
  /\ armed_ms' = 0
  /\ Quiet
  /\ store' = NoStore
  /\ UNCHANGED <<hw, phase, driver, canceling, int_status, i, fifo_reads, forwarded,
                 history>>

\* Mutant: a failed read returns from the handler without rescheduling.
AfterIntStatus_Return(ret) == IF ret < 0 THEN "idle" ELSE "sync"

\* Where the handler goes after the REG_INT_STATUS read.
AfterIntStatus(ret) == IF ret < 0 THEN "reschedule" ELSE "sync"

\* Mutant: the handler arms the next tick first, before it does its work.
PollReadIntStatus_RearmFirst ==
  /\ pc = "start"
  /\ \E ret \in hw.ints :
       /\ int_status' = (IF ret < 0 THEN NotRead ELSE ret % 256)
       /\ pc' = AfterIntStatus(ret)
  /\ Quiet
  /\ ScheduleDelayedWork(poll_interval_ms)
  /\ store' = NoStore
  /\ UNCHANGED <<hw, phase, driver, canceling, i, fifo_reads, forwarded, history>>

PollReadIntStatus ==
  /\ pc = "start"
  /\ \E ret \in hw.ints :
       /\ int_status' = (IF ret < 0 THEN NotRead ELSE ret % 256)
       /\ pc' = AfterIntStatus(ret)
  /\ Quiet
  /\ store' = NoStore
  /\ UNCHANGED <<hw, phase, driver, work, i, fifo_reads, forwarded, history>>

\* Modifier sync if a change bit is set; the overflow bit only logs.
PollSyncModifiers ==
  /\ pc = "sync"
  /\ IF IntModifierChange(int_status)
       THEN \E ret \in hw.status :
              /\ key_status' = ret
              /\ emitted' = SyncModifiers(ret)
       ELSE /\ key_status' = NotRead
            /\ emitted' = <<>>
  /\ fifo_data' = NotRead /\ mouse_x' = NotRead /\ mouse_y' = NotRead
  /\ pc' = (IF IntKeyEvent(int_status) THEN "fifo" ELSE "mouse")
  /\ store' = NoStore
  /\ UNCHANGED <<hw, phase, driver, work, int_status, i, fifo_reads, forwarded, history>>

\* Mutant: the loop bound is off by one.
FifoLoopCond_OffByOne(n) == n <= FIFO_MAX_READ

\* while (i < FIFO_MAX_READ)
FifoLoopCond(n) == n < FIFO_MAX_READ

\* Mutant: hold entries are forwarded too.
Forwards_HoldToo(event_type) == event_type # FIFO_EVENT_NONE

\* The switch on event_type: press and release go to process_key_event,
\* hold (and anything else) skips to the next entry.
Forwards(event_type) ==
  event_type = FIFO_EVENT_PRESS \/ event_type = FIFO_EVENT_RELEASE

EntryPressed(event_type) == event_type = FIFO_EVENT_PRESS

\* The history of the events reported together with a scan code.
HasScan(out) == Len(out) > 0 /\ out[1].type = "msc"

LastEventAfter(out) ==
  IF HasScan(out)
    THEN [last_event EXCEPT ![out[1].value] = [key |-> out[2].code, value |-> out[2].value]]
    ELSE last_event

LayerDownAfter(out) ==
  IF HasScan(out)
    THEN IF out[2].value = 1 THEN layer_down \cup {out[2].code}
         ELSE layer_down \ {out[2].code}
    ELSE layer_down

\* One iteration of lyra_kbd_process_fifo's loop, up to the call of
\* lyra_kbd_process_key_event: the REG_FIFO_ACCESS read, the decoding, the
\* switch. A forwarded entry with a keycode in range goes on to the
\* key-status read; one out of range returns from the call at once.
PollFifo ==
  /\ pc = "fifo"
  /\ FifoLoopCond(i)
  /\ \E ret \in FifoReads :
       /\ fifo_data' = ret
       /\ fifo_reads' = fifo_reads + 1
       /\ key_status' = NotRead
       /\ IF ret < 0 \/ EventType(ret) = FIFO_EVENT_NONE
            THEN \* return / break
                 /\ pc' = "mouse"
                 /\ emitted' = <<>>
                 /\ UNCHANGED <<i, forwarded, last_key_pressed, history>>
            ELSE IF Forwards(EventType(ret))
            THEN IF ReadsKeyStatus(Keycode(ret))
                   THEN /\ pc' = "key"
                        /\ emitted' = <<>>
                        /\ forwarded' = forwarded + 1
                        /\ UNCHANGED <<i, last_key_pressed, history>>
                   ELSE LET r == ProcessKeyEvent(last_key_pressed, Keycode(ret),
                                                 EntryPressed(EventType(ret)), NotRead)
                        IN /\ emitted' = r.out
                           /\ last_key_pressed' = r.lkp
                           /\ last_event' = LastEventAfter(r.out)
                           /\ layer_down' = LayerDownAfter(r.out)
                           /\ last_power' = last_power
                           /\ forwarded' = forwarded + 1
                           /\ i' = i + 1
                           /\ pc' = "fifo"
            ELSE \* goto next
                 /\ emitted' = <<>>
                 /\ i' = i + 1
                 /\ pc' = "fifo"
                 /\ UNCHANGED <<forwarded, last_key_pressed, history>>
  /\ mouse_x' = NotRead /\ mouse_y' = NotRead
  /\ store' = NoStore
  /\ UNCHANGED <<hw, phase, mouse_speed_x, mouse_speed_y, power_btn_pressed,
                 poll_interval_ms, work, int_status>>

\* lyra_kbd_process_key_event from its REG_KEY_STATUS read on, then next: i++.
PollKeyStatus ==
  /\ pc = "key"
  /\ \E ks \in hw.status :
       LET r == ProcessKeyEvent(last_key_pressed, Keycode(fifo_data),
                                EntryPressed(EventType(fifo_data)), ks)
       IN /\ key_status' = ks
          /\ emitted' = r.out
          /\ last_key_pressed' = r.lkp
          /\ last_event' = LastEventAfter(r.out)
          /\ layer_down' = LayerDownAfter(r.out)
          /\ last_power' = last_power
  /\ fifo_data' = fifo_data
  /\ i' = i + 1
  /\ pc' = "fifo"
  /\ mouse_x' = NotRead /\ mouse_y' = NotRead
  /\ store' = NoStore
  /\ UNCHANGED <<hw, phase, mouse_speed_x, mouse_speed_y, power_btn_pressed,
                 poll_interval_ms, work, int_status, fifo_reads, forwarded>>

\* The loop condition fails: process_fifo returns.
PollFifoExit ==
  /\ pc = "fifo"
  /\ ~FifoLoopCond(i)
  /\ pc' = "mouse"
  /\ Quiet
  /\ store' = NoStore
  /\ UNCHANGED <<hw, phase, driver, work, int_status, i, fifo_reads, forwarded, history>>

\* The mouse gate and, if it is open, the REG_MOUSE_X read.
PollMouse ==
  /\ pc = "mouse"
  /\ IF IntMouseEvent(int_status)
       THEN \E retx \in hw.deltas :
              /\ mouse_x' = retx
              /\ pc' = (IF retx < 0 THEN "power" ELSE "mouse_y")
       ELSE /\ mouse_x' = NotRead
            /\ pc' = "power"
  /\ mouse_y' = NotRead
  /\ emitted' = <<>>
  /\ fifo_data' = NotRead /\ key_status' = NotRead
  /\ DrainReset
  /\ store' = NoStore
  /\ UNCHANGED <<hw, phase, driver, work, int_status, history>>

\* The REG_MOUSE_Y read.
PollMouseY ==
  /\ pc = "mouse_y"
  /\ \E rety \in hw.deltas_y :
       /\ mouse_y' = rety
       /\ pc' = AfterMouseY(rety)
  /\ mouse_x' = mouse_x
  /\ emitted' = <<>>
  /\ fifo_data' = NotRead /\ key_status' = NotRead
  /\ store' = NoStore
  /\ UNCHANGED <<hw, phase, driver, work, int_status, i, fifo_reads, forwarded, history>>

\* The X motion, scaled by the X speed as it is now.
PollMouseReportX ==
  /\ pc = "report_x"
  /\ emitted' = MouseReportX(mouse_x, mouse_speed_x)
  /\ pc' = "report_y"
  /\ mouse_x' = mouse_x /\ mouse_y' = mouse_y
  /\ fifo_data' = NotRead /\ key_status' = NotRead
  /\ store' = NoStore
  /\ UNCHANGED <<hw, phase, driver, work, int_status, i, fifo_reads, forwarded, history>>

\* The Y motion, scaled by the Y speed as it is now, and the sync.
PollMouseReportY ==
  /\ pc = "report_y"
  /\ emitted' = MouseReportY(mouse_x, mouse_y, mouse_speed_y)
  /\ pc' = "power"
  /\ mouse_x' = mouse_x /\ mouse_y' = mouse_y
  /\ fifo_data' = NotRead /\ key_status' = NotRead
  /\ store' = NoStore
  /\ UNCHANGED <<hw, phase, driver, work, int_status, i, fifo_reads, forwarded, history>>

\* Mutant: the event is reported but the new state is not stored.
ProcessPowerButton_NoStore(stored, pressed) ==
  IF stored # pressed
    THEN [state |-> stored, out |-> <<KeyEv(KEY_POWER, pressed), KbdSync>>]
    ELSE [state |-> stored, out |-> <<>>]

\* lyra_kbd_process_power_button(kbd, pressed)
ProcessPowerButton(stored, pressed) ==
  IF stored # pressed
    THEN [state |-> pressed, out |-> <<KeyEv(KEY_POWER, pressed), KbdSync>>]
    ELSE [state |-> stored, out |-> <<>>]

PollPower ==
  /\ pc = "power"
  /\ LET r == IF IntPowerBtn(int_status)
                THEN ProcessPowerButton(power_btn_pressed, ~power_btn_pressed)
                ELSE [state |-> power_btn_pressed, out |-> <<>>]
     IN /\ power_btn_pressed' = r.state
        /\ emitted' = r.out
        /\ last_power' = (IF r.out # <<>> THEN r.out[1].value ELSE last_power)
  /\ NoReads
  /\ pc' = "reschedule"
  /\ store' = NoStore
  /\ UNCHANGED <<hw, phase, last_key_pressed, mouse_speed_x, mouse_speed_y,
                 poll_interval_ms, work, int_status, i, fifo_reads, forwarded,
                 last_event, layer_down>>

\* reschedule: the handler's last statement.
PollReschedule ==
  /\ pc = "reschedule"
  /\ ScheduleDelayedWork(poll_interval_ms)
  /\ pc' = "idle"
  /\ int_status' = NotRead
  /\ Quiet
  /\ store' = NoStore
  /\ UNCHANGED <<hw, phase, driver, canceling, i, fifo_reads, forwarded, history>>

(***************************************************************************)
(* Suspend, resume, remove.                                                *)
(***************************************************************************)
\* cancel_delayed_work_sync, first half: take the work off the timer and
\* hold it so that it cannot be queued.
CancelBegin(next) ==
  /\ phase = "bound"
  /\ phase' = next
  /\ pending' = FALSE
  /\ armed_ms' = 0
  /\ canceling' = TRUE
  /\ Quiet
  /\ store' = NoStore
  /\ UNCHANGED <<hw, driver, pc, int_status, i, fifo_reads, forwarded, history>>

\* Mutant: the cancel does not wait for the handler (cancel_delayed_work).
WorkIdle_NoWait == TRUE

\* What cancel_delayed_work_sync waits for before it returns.
WorkIdle == pc = "idle"

\* cancel_delayed_work_sync, second half: the handler is not executing; return.
CancelReturn(from, to) ==
  /\ phase = from
  /\ WorkIdle
  /\ phase' = to
  /\ canceling' = FALSE
  /\ Quiet
  /\ store' = NoStore
  /\ UNCHANGED <<hw, driver, pending, armed_ms, pc, int_status, i, fifo_reads,
                 forwarded, history>>

Suspend == CancelBegin("suspending")
SuspendReturn == CancelReturn("suspending", "suspended")
Remove == CancelBegin("removing")
RemoveReturn == CancelReturn("removing", "remove_sysfs")

\* sysfs_remove_group: the attribute files are gone; remove returns.
RemoveSysfs ==
  /\ phase = "remove_sysfs"
  /\ phase' = "removed"
  /\ Quiet
  /\ store' = NoStore
  /\ UNCHANGED <<hw, driver, work, pc, int_status, i, fifo_reads, forwarded, history>>

Resume ==
  /\ phase = "suspended"
  /\ phase' = "bound"
  /\ ScheduleDelayedWork(poll_interval_ms)
  /\ Quiet
  /\ store' = NoStore
  /\ UNCHANGED <<hw, driver, canceling, pc, int_status, i, fifo_reads, forwarded,
                 history>>

(***************************************************************************)
(* The sysfs attributes: live from sysfs_create_group in probe until        *)
(* sysfs_remove_group in remove, whatever else the driver is doing.        *)
(***************************************************************************)
SysfsLive ==
  phase \in {"probe_sync", "probe_schedule", "bound", "suspending", "suspended",
             "removing", "remove_sysfs"}

\* Mutant: the upper limit of the speed is not checked.
SpeedValid_NoUpper(val) == ~(val < 10)

SpeedValid(val) == ~(val < 10 \/ val > 500)
IntervalValid(val) == ~(val < 5 \/ val > 100)

\* kstrtouint fails on the text of a negative number.
KstrtouintOk(val) == val >= 0

\* What a store handler returns: the byte count, or -EINVAL.
StoreReturn(accepted) == IF accepted THEN "count" ELSE "-EINVAL"

MouseSpeedXStore ==
  /\ SysfsLive
  /\ \E val \in hw.speeds :
       /\ mouse_speed_x' = (IF SpeedValid(val) THEN val ELSE mouse_speed_x)
       /\ store' = [attr |-> "mouse_speed_x", val |-> val,
                    ret |-> StoreReturn(SpeedValid(val))]
  /\ Quiet
  /\ UNCHANGED <<hw, phase, last_key_pressed, mouse_speed_y, power_btn_pressed,
                 poll_interval_ms, work, pc, int_status, i, fifo_reads, forwarded,
                 history>>

MouseSpeedYStore ==
  /\ SysfsLive
  /\ \E val \in hw.speeds :
       /\ mouse_speed_y' = (IF SpeedValid(val) THEN val ELSE mouse_speed_y)
       /\ store' = [attr |-> "mouse_speed_y", val |-> val,
                    ret |-> StoreReturn(SpeedValid(val))]
  /\ Quiet
  /\ UNCHANGED <<hw, phase, last_key_pressed, mouse_speed_x, power_btn_pressed,
                 poll_interval_ms, work, pc, int_status, i, fifo_reads, forwarded,
                 history>>

PollIntervalStore ==
  /\ SysfsLive
  /\ \E val \in hw.intervals :
       LET accepted == KstrtouintOk(val) /\ IntervalValid(val) IN
       /\ poll_interval_ms' = (IF accepted THEN val ELSE poll_interval_ms)
       /\ store' = [attr |-> "poll_interval", val |-> val, ret |-> StoreReturn(accepted)]
  /\ Quiet
  /\ UNCHANGED <<hw, phase, last_key_pressed, mouse_speed_x, mouse_speed_y,
                 power_btn_pressed, work, pc, int_status, i, fifo_reads, forwarded,
                 history>>

(***************************************************************************)
(* Specification.                                                          *)
(***************************************************************************)
Poll ==
  \/ TimerFire
  \/ PollReadIntStatus
  \/ PollSyncModifiers
  \/ PollFifo
  \/ PollKeyStatus
  \/ PollFifoExit
  \/ PollMouse
  \/ PollMouseY
  \/ PollMouseReportX
  \/ PollMouseReportY
  \/ PollPower
  \/ PollReschedule

Next ==
  \/ ProbeFail
  \/ Probe
  \/ ProbeSyncModifiers
  \/ ProbeSchedule
  \/ TimerFire
  \/ PollReadIntStatus
  \/ PollSyncModifiers
  \/ PollFifo
  \/ PollKeyStatus
  \/ PollFifoExit
  \/ PollMouse
  \/ PollMouseY
  \/ PollMouseReportX
  \/ PollMouseReportY
  \/ PollPower
  \/ PollReschedule
  \/ Suspend
  \/ SuspendReturn
  \/ Resume
  \/ Remove
  \/ RemoveReturn
  \/ RemoveSysfs
  \/ MouseSpeedXStore
  \/ MouseSpeedYStore
  \/ PollIntervalStore

Spec == Init /\ [][Next]_vars

\* The environments of the liveness check: unreliable keyboards (a layer key,
\* ctrl, an invalid keycode, a pair), the flooding queue, the system, the
\* configuration writes.
LiveEnvironments ==
  {KeysEnv(keys, FALSE) : keys \in {{5}, {33}, {60}, {7, 8}}}
    \cup {FloodEnv, SystemEnv, ConfigEnv}

LiveInit == Init /\ hw \in LiveEnvironments

\* The timer expires and the worker runs the handler to its end.
LiveSpec == LiveInit /\ [][Next]_vars /\ WF_vars(Poll)

(***************************************************************************)
(* The mouse handler over every delta byte and every valid speed, one axis *)
(* at a time: a bound driver in the middle of a tick whose status has the  *)
(* mouse bit set, about to run lyra_kbd_process_mouse.                     *)
(***************************************************************************)
MouseEnv(axis) ==
  [kind     |-> "mouse",
   reliable |-> TRUE,
   fifo     |-> {},
   depth    |-> 0,
   status   |-> {},
   ints     |-> {32},
   deltas   |-> (IF axis = REL_X THEN 0 .. 255 ELSE {0}),
   deltas_y |-> (IF axis = REL_Y THEN 0 .. 255 ELSE {0}),
   speeds   |-> {},
   intervals |-> {}]

MouseInit ==
  /\ \E axis \in {REL_X, REL_Y} :
       /\ hw = MouseEnv(axis)
       /\ mouse_speed_x \in (IF axis = REL_X THEN 10 .. 500 ELSE {100})
       /\ mouse_speed_y \in (IF axis = REL_Y THEN 10 .. 500 ELSE {100})
  /\ phase = "bound"
  /\ last_key_pressed = [k \in 0 .. (MAX_KEYCODES - 1) |-> 0]
  /\ power_btn_pressed = FALSE
  /\ poll_interval_ms = POLL_INTERVAL_MS
  /\ pending = FALSE
  /\ armed_ms = 0
  /\ canceling = FALSE
  /\ pc = "mouse"
  /\ int_status = 32
  /\ i = 0
  /\ fifo_data = NotRead
  /\ key_status = NotRead
  /\ mouse_x = NotRead
  /\ mouse_y = NotRead
  /\ emitted = <<>>
  /\ store = NoStore
  /\ fifo_reads = 0
  /\ forwarded = 0
  /\ last_event = [k \in 0 .. (MAX_KEYCODES - 1) |-> NoEvent]
  /\ layer_down = {}
  /\ last_power = 0

MouseNext == PollMouse \/ PollMouseY \/ PollMouseReportX \/ PollMouseReportY

MouseSpec == MouseInit /\ [][MouseNext]_vars

(***************************************************************************)
(* Properties.                                                             *)
(***************************************************************************)
\* This step is an iteration of the drain loop: it reads REG_FIFO_ACCESS.
FifoStep == fifo_reads' = fifo_reads + 1

\* This step ends an iteration of the drain loop (next: i++): the entry, read
\* in this step or in the one before the key-status read, is dealt with.
EntryStep == pc \in {"fifo", "key"} /\ i' = i + 1

AllIdle == \A k \in 0 .. (MAX_KEYCODES - 1) : last_key_pressed[k] = 0

Reports(out, ev) == \E n \in 1 .. Len(out) : out[n] = ev

KeyEventsOf(out) == {n \in 1 .. Len(out) : out[n].type = "key"}

\* C1: press/release symmetry. When a Release entry of a layer keycode k is
\* processed with a successful key-status read, under any modifier bits, and
\* the last event reported for k was the press of key L, the step reports the
\* release of L and no other key, and leaves last_key_pressed[k] = 0.
C1_PressReleaseSymmetry ==
  [][LET k == Keycode(fifo_data') IN
     (/\ EntryStep
      /\ fifo_data' >= 0
      /\ EventType(fifo_data') = FIFO_EVENT_RELEASE
      /\ k \in LayerKeycodes
      /\ key_status' >= 0
      /\ last_event[k].value = 1)
     => /\ Reports(emitted', KeyEv(last_event[k].key, FALSE))
        /\ Cardinality(KeyEventsOf(emitted')) = 1
        /\ last_key_pressed'[k] = 0]_vars

\* Keycode 48 pressed on the normal layer (BTN_LEFT) is released while shift
\* (which alone would select BTN_RIGHT) is set: BTN_LEFT is released.
C1_Witness ==
  /\ fifo_data = 4 * 48 + FIFO_EVENT_RELEASE
  /\ key_status = 1
  /\ emitted = <<ScanEv(48), KeyEv(272, FALSE), KbdSync>>
  /\ last_key_pressed[48] = 0

\* C2: a release of a tracked key is never dropped, whatever the key-status
\* read returns (any modifier bits, or a transport error).
C2_ReleaseNeverDropped ==
  [][LET k == Keycode(fifo_data') IN
     (/\ EntryStep
      /\ fifo_data' >= 0
      /\ EventType(fifo_data') = FIFO_EVENT_RELEASE
      /\ k \in LayerKeycodes
      /\ last_key_pressed[k] # 0)
     => /\ Reports(emitted', KeyEv(last_key_pressed[k], FALSE))
        /\ last_key_pressed'[k] = 0]_vars

\* C3: no stuck keys. With every register read succeeding, whenever no keycode
\* has a recorded press, no keymap key is left pressed at the input layer.
C3_NoStuckKeys == (hw.reliable /\ AllIdle) => layer_down = {}

\* C4: last_key_pressed[k] = L iff the last event reported for keycode k is the
\* press of L; it is 0 iff nothing was reported for k or the last event was a
\* release. It changes only in the step that ends the processing of a
\* forwarded press or release entry.
C4_Tracks ==
  \A k \in LayerKeycodes :
    /\ (last_key_pressed[k] # 0) <=> (last_event[k].value = 1)
    /\ (last_key_pressed[k] # 0) => (last_event[k].key = last_key_pressed[k])
    /\ (last_key_pressed[k] = 0) <=> (last_event[k] = NoEvent \/ last_event[k].value = 0)

C4_PressStateInvariant ==
  /\ []C4_Tracks
  /\ [][last_key_pressed' # last_key_pressed
          => EntryStep /\ fifo_data' >= 0 /\ Forwards(EventType(fifo_data'))]_vars

C4_Witness ==
  /\ last_key_pressed[5] = 67
  /\ last_event[5] = [key |-> 67, value |-> 1]
  /\ emitted = <<ScanEv(5), KeyEv(67, TRUE), KbdSync>>

\* C5: a tick always ends, and unless a cancel holds the work its last step
\* arms the next tick with the configured interval, also when the
\* interrupt-status read failed; while the driver stays bound, ticks recur
\* forever.
C5_PollingContinues ==
  /\ [][(pc = "reschedule" /\ pc' = "idle" /\ ~canceling)
          => (pending' /\ armed_ms' = poll_interval_ms)]_vars
  /\ [][(pc = "start" /\ pc' # "start") => pc' \in {"sync", "reschedule"}]_vars
  /\ ((pc # "idle") ~> (pc = "idle"))
  /\ ([]<>(phase # "bound") \/ []<>(pc = "reschedule"))

\* A tick whose interrupt-status read failed is at its reschedule step.
C5_Witness == pc = "reschedule" /\ int_status = NotRead /\ phase = "bound" /\ ~canceling

\* C6: one drain reads REG_FIFO_ACCESS at most 16 times and forwards at most
\* 16 entries, and a "none" entry ends it.
C6_DrainBounded ==
  /\ fifo_reads <= FIFO_MAX_READ
  /\ forwarded <= FIFO_MAX_READ
  /\ (fifo_data >= 0 /\ EventType(fifo_data) = FIFO_EVENT_NONE) => pc = "mouse"

\* The queue never reported "none": 16 reads, 16 entries forwarded, drain over.
C6_Witness == fifo_reads = FIFO_MAX_READ /\ forwarded = FIFO_MAX_READ /\ pc = "mouse"

\* C7: once the cancel of suspend or remove has returned, the handler is not
\* executing and not armed, nothing changes the press records or the power
\* button state and nothing is reported, until resume arms the work again
\* with the configured interval.
Quiesced == phase \in {"suspended", "remove_sysfs", "removed"}

C7_SynchronousCancel ==
  /\ [](Quiesced => (pc = "idle" /\ ~pending /\ ~canceling))
  /\ [][Quiesced => /\ last_key_pressed' = last_key_pressed
                    /\ power_btn_pressed' = power_btn_pressed
                    /\ emitted' = <<>>]_vars
  /\ [][(phase = "suspended" /\ phase' # "suspended")
          => (phase' = "bound" /\ pending' /\ armed_ms' = poll_interval_ms)]_vars

\* Suspended with a key still recorded as pressed.
C7_Witness == phase = "suspended" /\ ~AllIdle /\ pc = "idle" /\ ~pending

\* C8: the work is never armed while the handler executes; it becomes armed
\* only by the handler's last step, by probe or by resume.
C8_TicksExclusive ==
  /\ [](pc # "idle" => ~pending)
  /\ [][(~pending /\ pending')
          => \/ (pc = "reschedule" /\ pc' = "idle")
             \/ (phase = "probe_schedule" /\ phase' = "bound")
             \/ (phase = "suspended" /\ phase' = "bound")]_vars

\* The handler is inside the drain, after at least one entry; nothing is armed.
C8_Witness == pc = "fifo" /\ i > 0 /\ ~pending /\ phase = "bound"

\* C9: after a failed read inside the drain (the FIFO read or the key-status
\* read of an entry) no further REG_FIFO_ACCESS read is made in that tick.
C9_ReadFailureAbortsDrain ==
  [][(/\ pc = "fifo"
      /\ fifo_reads > 0
      /\ (key_status = ReadFail \/ fifo_data = ReadFail))
     => fifo_reads' = fifo_reads]_vars

\* C10: a Hold entry reports nothing, reads no key status, changes no press
\* record and the drain goes on to the next entry.
C10_HoldInert ==
  [][(FifoStep /\ fifo_data' >= 0 /\ EventType(fifo_data') = FIFO_EVENT_HOLD)
     => /\ emitted' = <<>>
        /\ last_key_pressed' = last_key_pressed
        /\ power_btn_pressed' = power_btn_pressed
        /\ history' = history
        /\ key_status' = NotRead
        /\ i' = i + 1
        /\ pc' = "fifo"]_vars

\* A Hold entry of keycode 7 was read while keycode 7 is recorded as pressed
\* on the fn layer (MINUS).
C10_Witness ==
  /\ fifo_data = 4 * 7 + FIFO_EVENT_HOLD
  /\ last_key_pressed[7] = 12
  /\ pc = "fifo"

\* The layer entry a keycode has under the bits of a key-status byte: bit 2
\* (fn) first, then bit 0 (shift), else normal; bit 1 (alt) is not looked at.
LayerEntry(k, status) ==
  IF (status \div 4) % 2 = 1 THEN KeymapFnTable[k + 1]
  ELSE IF status % 2 = 1 THEN KeymapShiftTable[k + 1]
  ELSE KeymapNormalTable[k + 1]

\* C11: layer priority. A Press entry of a layer keycode k processed with a
\* successful key-status read reports, and records, keymap_fn[k] if fn is
\* set, else keymap_shift[k] if shift is set, else keymap_normal[k]; alt has
\* no influence.
C11_LayerPriority ==
  [][LET k == Keycode(fifo_data') IN
     (/\ EntryStep
      /\ fifo_data' >= 0
      /\ EventType(fifo_data') = FIFO_EVENT_PRESS
      /\ k \in LayerKeycodes
      /\ key_status' >= 0)
     => /\ emitted' = <<ScanEv(k), KeyEv(LayerEntry(k, key_status'), TRUE), KbdSync>>
        /\ last_key_pressed'[k] = LayerEntry(k, key_status')]_vars

\* Keycode 48 pressed with shift, alt and fn all set: BTN_MIDDLE (fn layer),
\* not BTN_RIGHT (shift layer).
C11_Witness ==
  /\ fifo_data = 4 * 48 + FIFO_EVENT_PRESS
  /\ key_status = 7
  /\ emitted = <<ScanEv(48), KeyEv(274, TRUE), KbdSync>>
  /\ last_key_pressed[48] = 274

\* C12: protocol errors drop and continue. A Press or Release entry whose
\* keycode is in 53..63 emits no event, changes no stored state, makes no
\* key-status read, and leaves the drain in its loop with the entry counted,
\* so that the next entry of the same tick is read; the record array keeps
\* the domain 0..52 (no index of 53 or more is ever written).
C12_InvalidKeycodeDropped ==
  /\ [](DOMAIN last_key_pressed = 0 .. (MAX_KEYCODES - 1))
  /\ [][(/\ FifoStep
         /\ fifo_data' >= 0
         /\ EventType(fifo_data') \in {FIFO_EVENT_PRESS, FIFO_EVENT_RELEASE}
         /\ Keycode(fifo_data') >= MAX_KEYCODES)
        => /\ emitted' = <<>>
           /\ last_key_pressed' = last_key_pressed
           /\ power_btn_pressed' = power_btn_pressed
           /\ history' = history
           /\ key_status' = NotRead
           /\ i' = i + 1
           /\ pc' = "fifo"]_vars

\* The second entry of a drain whose entries all carry keycode 60: the first
\* one (a press or a release, since it was forwarded) did not end the drain.
C12_Witness ==
  /\ hw = KeysEnv({60}, TRUE)
  /\ pc = "fifo"
  /\ i = 2
  /\ forwarded = 2
  /\ fifo_data = 4 * 60 + FIFO_EVENT_RELEASE
  /\ emitted = <<>>
  /\ AllIdle

MouseEventsOf(out) == SelectSeq(out, LAMBDA e : e.dev = "mouse")

\* Bits 1..6 of an interrupt-status byte, read off without bit 0.
GateBits(status) == (status \div 2) % 64
WantsModifierSync(status) == GateBits(status) % 8 # 0
WantsFifo(status) == (GateBits(status) \div 8) % 2 = 1
WantsMouse(status) == (GateBits(status) \div 16) % 2 = 1
WantsPower(status) == (GateBits(status) \div 32) % 2 = 1

\* C13: tick gating. The interrupt status is read once, at the start of the
\* tick, and keeps its value for the rest of it. If the read fails the tick
\* goes straight to the reschedule: no handler runs, nothing is emitted, no
\* stored state changes. If it succeeds, the modifier sync reads the key
\* status iff one of bits 1, 2, 3 is set, the FIFO decoder is entered (and
\* reads the queue) iff bit 4 is set, the mouse handler reads iff bit 5 is
\* set, the power button toggles and reports iff bit 6 is set; a handler
\* whose bit is clear emits nothing and changes nothing. Which handlers run
\* is a function of bits 1..6 alone: bit 0 has no part in it.
C13_TickGating ==
  /\ [][(int_status' # int_status /\ int_status' # NotRead) => pc = "start"]_vars
  /\ [][(pc \notin {"idle", "start"} /\ pc' # "idle") => int_status' = int_status]_vars
  /\ [][(pc = "start" /\ pc' # pc)
        => /\ emitted' = <<>>
           /\ driver' = driver
           /\ history' = history
           /\ fifo_data' = NotRead /\ key_status' = NotRead
           /\ mouse_x' = NotRead /\ mouse_y' = NotRead
           /\ pc' = (IF int_status' = NotRead THEN "reschedule" ELSE "sync")]_vars
  /\ [][(pc = "reschedule" /\ pc' # pc)
        => /\ pc' = "idle"
           /\ emitted' = <<>>
           /\ driver' = driver
           /\ history' = history
           /\ fifo_data' = NotRead /\ key_status' = NotRead
           /\ mouse_x' = NotRead /\ mouse_y' = NotRead]_vars
  /\ [][(pc = "sync" /\ pc' # pc)
        => /\ (key_status' # NotRead) <=> WantsModifierSync(int_status)
           /\ emitted' # <<>> => WantsModifierSync(int_status)
           /\ driver' = driver
           /\ history' = history
           /\ fifo_data' = NotRead /\ mouse_x' = NotRead /\ mouse_y' = NotRead
           /\ pc' = (IF WantsFifo(int_status) THEN "fifo" ELSE "mouse")]_vars
  /\ [][fifo_data' # NotRead => (pc \in {"fifo", "key"} /\ WantsFifo(int_status))]_vars
  /\ [][(pc = "fifo" /\ i = 0 /\ (pc' # pc \/ i' # i)) => fifo_data' # NotRead]_vars
  /\ [][(pc = "mouse" /\ pc' # pc)
        => /\ (mouse_x' # NotRead) <=> WantsMouse(int_status)
           /\ driver' = driver
           /\ history' = history
           /\ fifo_data' = NotRead /\ key_status' = NotRead
           /\ pc' \in {"mouse_y", "power"}
           /\ pc' = "mouse_y" => WantsMouse(int_status)]_vars
  /\ [][(mouse_x' # NotRead \/ mouse_y' # NotRead \/ MouseEventsOf(emitted') # <<>>)
        => (pc \in {"mouse"} \cup MouseSteps /\ WantsMouse(int_status))]_vars
  /\ [][(pc \in MouseSteps /\ pc' # pc)
        => /\ driver' = driver
           /\ history' = history
           /\ fifo_data' = NotRead /\ key_status' = NotRead
           /\ pc' \in MouseSteps \cup {"power"}]_vars
  /\ [][(pc = "power" /\ pc' # pc)
        => /\ (power_btn_pressed' # power_btn_pressed) <=> WantsPower(int_status)
           /\ (emitted' # <<>>) <=> WantsPower(int_status)
           /\ last_key_pressed' = last_key_pressed
           /\ last_event' = last_event /\ layer_down' = layer_down
           /\ fifo_data' = NotRead /\ key_status' = NotRead
           /\ mouse_x' = NotRead /\ mouse_y' = NotRead
           /\ pc' = "reschedule"]_vars

\* Overflow and alt-change bits only (0x09): the modifier sync has just run
\* and reported shift and alt pressed; the FIFO decoder is skipped.
C13_Witness ==
  /\ int_status = 9
  /\ pc = "mouse"
  /\ key_status = 3
  /\ emitted = <<KeyEv(KEY_LEFTSHIFT, TRUE), KeyEv(KEY_LEFTALT, TRUE), KbdSync>>
  /\ fifo_reads = 0

PowerEventsOf(out) == SelectSeq(out, LAMBDA e : e.type = "key" /\ e.code = KEY_POWER)

\* C14: power-button toggle. The stored state starts released and always
\* equals the value of the last power-key event. The power step of every
\* tick whose status has bit 6 set reports exactly one power-key event, the
\* negation of the stored state, followed by a sync, and stores it, so
\* consecutive power-key events never carry the same value. No other step
\* (a tick without the bit, a tick whose status read failed) reports a
\* power-key event or changes the stored state.
C14_PowerToggle ==
  /\ [](power_btn_pressed = (last_power = 1))
  /\ [][(pc = "power" /\ pc' # pc /\ int_status >= 0 /\ (int_status \div 64) % 2 = 1)
        => /\ emitted' = <<KeyEv(KEY_POWER, ~power_btn_pressed), KbdSync>>
           /\ power_btn_pressed' = ~power_btn_pressed]_vars
  /\ [][PowerEventsOf(emitted') # <<>>
        => /\ Len(PowerEventsOf(emitted')) = 1
           /\ PowerEventsOf(emitted')[1].value # last_power
           /\ pc = "power" /\ int_status >= 0 /\ (int_status \div 64) % 2 = 1]_vars
  /\ [][power_btn_pressed' # power_btn_pressed
        => (pc = "power" /\ int_status >= 0 /\ (int_status \div 64) % 2 = 1)]_vars

\* The button has just been reported released: the second event of a
\* press, release sequence.
C14_Witness ==
  /\ pc = "reschedule"
  /\ int_status = 64
  /\ emitted = <<KeyEv(KEY_POWER, FALSE), KbdSync>>
  /\ ~power_btn_pressed
  /\ last_power = 0

\* What the scaling of a delta byte should produce: the byte read as a signed
\* number d, the magnitude |d| * speed / 100 rounded down, 1 if that is 0,
\* with the sign of d.
SignedOfByte(byte) == IF byte >= 128 THEN byte - 256 ELSE byte
Magnitude(d) == IF d < 0 THEN -d ELSE d
ScaledAmount(d, speed) ==
  LET q == (Magnitude(d) * speed) \div 100
      m == IF q = 0 THEN 1 ELSE q
  IN IF d < 0 THEN -m ELSE m

RelEventsOf(out, axis) == SelectSeq(out, LAMBDA e : e.type = "rel" /\ e.code = axis)

AxisScaled(out, axis, byte, speed) ==
  LET d == SignedOfByte(byte) IN
  d # 0 =>
    /\ RelEventsOf(out, axis) = <<RelEv(axis, ScaledAmount(d, speed))>>
    /\ RelEventsOf(out, axis)[1].value # 0
    /\ (RelEventsOf(out, axis)[1].value > 0) <=> (d > 0)

\* C15: mouse scaling. For every non-zero signed delta in -128..127 and every
\* speed in 10..500, the amount the mouse handler reports on that axis is
\* (delta * speed) / 100 truncated toward zero, replaced by +1 or -1 (the
\* sign of the delta) when that quotient is 0; it is never 0 and has the
\* sign of the delta.
C15_MouseScaling ==
  /\ [][(pc = "report_x" /\ pc' # pc)
        => /\ mouse_speed_x \in 10 .. 500
           /\ AxisScaled(emitted', REL_X, mouse_x, mouse_speed_x)]_vars
  /\ [][(pc = "report_y" /\ pc' # pc)
        => /\ mouse_speed_y \in 10 .. 500
           /\ AxisScaled(emitted', REL_Y, mouse_y, mouse_speed_y)]_vars

\* Delta -1 (byte 0xFF) at speed 10: the quotient is 0, -1 is reported.
C15_Witness ==
  /\ pc = "report_y"
  /\ mouse_x = 255
  /\ mouse_y = 0
  /\ mouse_speed_x = 10
  /\ emitted = <<RelEv(REL_X, -1)>>

MouseSyncsOf(out) == SelectSeq(out, LAMBDA e : e = MouseSync)

\* C16: mouse emission shape. The mouse handler reports only after both
\* delta reads succeeded, first X, then Y and the sync: an X motion and
\* nothing else iff dx # 0, then a Y motion iff dy # 0 and one sync, after
\* the motions, iff at least one of them is non-zero; with dx = dy = 0 it
\* reports nothing, whatever the speeds. No other step reports on the mouse.
C16_MouseEmissionShape ==
  /\ [](pc \in {"report_x", "report_y"} => (mouse_x >= 0 /\ mouse_y >= 0))
  /\ [][MouseEventsOf(emitted') # <<>> => pc \in {"report_x", "report_y"}]_vars
  /\ [][(pc = "report_x" /\ pc' # pc)
        => LET nx == IF SignedOfByte(mouse_x) # 0 THEN 1 ELSE 0
           IN /\ Len(RelEventsOf(emitted', REL_X)) = nx
              /\ Len(emitted') = nx
              /\ pc' = "report_y"
              /\ mouse_x' = mouse_x /\ mouse_y' = mouse_y]_vars
  /\ [][(pc = "report_y" /\ pc' # pc)
        => LET nx == IF SignedOfByte(mouse_x) # 0 THEN 1 ELSE 0
               ny == IF SignedOfByte(mouse_y) # 0 THEN 1 ELSE 0
               ns == IF nx + ny > 0 THEN 1 ELSE 0
           IN /\ Len(RelEventsOf(emitted', REL_Y)) = ny
              /\ Len(MouseSyncsOf(emitted')) = ns
              /\ Len(emitted') = ny + ns
              /\ ns = 1 => emitted'[Len(emitted')] = MouseSync
              /\ (nx = 0 /\ ny = 0) => emitted' = <<>>
              /\ pc' = "power"]_vars

\* Only the Y axis moved (delta -128 at speed 100): one Y motion, one sync.
C16_Witness ==
  /\ pc = "power"
  /\ mouse_x = 0
  /\ mouse_y = 128
  /\ emitted = <<RelEv(REL_Y, -128), MouseSync>>

\* What a write of val to an attribute with the range lo..hi must do to the
\* attribute's value (old before, new after) and return.
StoreChecked(val, lo, hi, old, new) ==
  IF val \in lo .. hi
    THEN store'.ret = "count" /\ new = val
    ELSE store'.ret = "-EINVAL" /\ new = old

\* C17: configuration validation. A write to mouse speed X or Y is accepted
\* iff the value is in 10..500, a write to the poll interval iff it is in
\* 5..100; a rejected write returns the error and leaves the value as it
\* was, and no write touches another attribute. The values start at 100,
\* 100 and 10, so in every state of a bound driver, after any writes and
\* ticks, both speeds are in 10..500 and the poll interval is in 5..100.
C17_ConfigValidation ==
  /\ [](phase \notin {"unbound", "probe_failed"}
        => /\ mouse_speed_x \in 10 .. 500
           /\ mouse_speed_y \in 10 .. 500
           /\ poll_interval_ms \in 5 .. 100)
  /\ [][(phase = "unbound" /\ phase' = "probe_sync")
        => /\ mouse_speed_x' = 100
           /\ mouse_speed_y' = 100
           /\ poll_interval_ms' = 10]_vars
  /\ [][store'.attr = "mouse_speed_x"
        => /\ StoreChecked(store'.val, 10, 500, mouse_speed_x, mouse_speed_x')
           /\ UNCHANGED <<mouse_speed_y, poll_interval_ms>>]_vars
  /\ [][store'.attr = "mouse_speed_y"
        => /\ StoreChecked(store'.val, 10, 500, mouse_speed_y, mouse_speed_y')
           /\ UNCHANGED <<mouse_speed_x, poll_interval_ms>>]_vars
  /\ [][store'.attr = "poll_interval"
        => /\ StoreChecked(store'.val, 5, 100, poll_interval_ms, poll_interval_ms')
           /\ UNCHANGED <<mouse_speed_x, mouse_speed_y>>]_vars
  /\ [][store'.attr = "none"
        => (phase' = "probe_sync"
            \/ UNCHANGED <<mouse_speed_x, mouse_speed_y, poll_interval_ms>>)]_vars

\* A write of 101 to the poll interval has just been rejected; the interval
\* and the speeds keep the limit values earlier writes gave them.
C17_Witness ==
  /\ store = [attr |-> "poll_interval", val |-> 101, ret |-> "-EINVAL"]
  /\ poll_interval_ms = 100
  /\ mouse_speed_x = 500
  /\ mouse_speed_y = 10

KeyCodesIn(out) == {out[n].code : n \in KeyEventsOf(out)}

\* C18: modifier positions excluded. A Press or Release entry for keycode
\* 25, 41, 30 or 37 emits no event and changes no record, under every
\* modifier state. A left-shift or left-alt key event is reported only by
\* the modifier sync (at probe or in a tick), with the values of the shift
\* and alt bits of the key-status byte it read. The fn key and the
\* right-shift key are never reported and never recorded.
C18_ModifierPositionsExcluded ==
  /\ [](KeyCodesIn(emitted) \cap {KEY_FN, KEY_RIGHTSHIFT} = {})
  /\ [](\A k \in 0 .. (MAX_KEYCODES - 1) :
          last_key_pressed[k] \notin {KEY_FN, KEY_RIGHTSHIFT, KEY_LEFTSHIFT, KEY_LEFTALT})
  /\ [][(/\ EntryStep
         /\ fifo_data' >= 0
         /\ EventType(fifo_data') \in {FIFO_EVENT_PRESS, FIFO_EVENT_RELEASE}
         /\ Keycode(fifo_data') \in {25, 41, 30, 37})
        => /\ emitted' = <<>>
           /\ last_key_pressed' = last_key_pressed
           /\ history' = history]_vars
  /\ [][KeyCodesIn(emitted') \cap {KEY_LEFTSHIFT, KEY_LEFTALT} # {}
        => /\ phase = "probe_sync" \/ pc = "sync"
           /\ key_status' >= 0
           /\ emitted' = <<KeyEv(KEY_LEFTSHIFT, key_status' % 2 = 1),
                           KeyEv(KEY_LEFTALT, (key_status' \div 2) % 2 = 1),
                           KbdSync>>]_vars

\* The fn position pressed while the key status says fn is held: the entry
\* is consumed without a report.
C18_Witness ==
  /\ pc = "fifo"
  /\ i = 1
  /\ fifo_data = 4 * 37 + FIFO_EVENT_PRESS
  /\ key_status = 4
  /\ emitted = <<>>
  /\ AllIdle

\* C19: ctrl reported directly. A Press or Release entry for keycode 33
\* processed with a successful key-status read reports the left-ctrl key
\* with the entry's pressed state and a sync, no scan code, whatever the
\* shift, alt and fn bits are, and leaves every record as it was; the
\* record of keycode 33 is idle in every reachable state.
C19_CtrlDirect ==
  /\ [](last_key_pressed[33] = 0)
  /\ [][(/\ EntryStep
         /\ fifo_data' >= 0
         /\ EventType(fifo_data') \in {FIFO_EVENT_PRESS, FIFO_EVENT_RELEASE}
         /\ Keycode(fifo_data') = 33
         /\ key_status' >= 0)
        => /\ emitted' = <<KeyEv(KEY_LEFTCTRL, EventType(fifo_data') = FIFO_EVENT_PRESS),
                           KbdSync>>
           /\ last_key_pressed' = last_key_pressed
           /\ history' = history]_vars

\* Ctrl released while shift and fn are held.
C19_Witness ==
  /\ fifo_data = 4 * 33 + FIFO_EVENT_RELEASE
  /\ key_status = 5
  /\ emitted = <<KeyEv(KEY_LEFTCTRL, FALSE), KbdSync>>
  /\ last_key_pressed[33] = 0

\* C20: release fallback. A Release entry of a layer keycode k whose record
\* is idle, processed with a successful key-status read (the modifier
\* snapshot), reports the scan code and the release of keymap_fn[k] if fn is
\* set, else keymap_shift[k] if shift is set, else keymap_normal[k]; the
\* record of k stays idle and no other record changes.
C20_ReleaseFallback ==
  [][LET k == Keycode(fifo_data') IN
     (/\ EntryStep
      /\ fifo_data' >= 0
      /\ EventType(fifo_data') = FIFO_EVENT_RELEASE
      /\ k \in LayerKeycodes
      /\ last_key_pressed[k] = 0
      /\ key_status' >= 0)
     => /\ emitted' = <<ScanEv(k), KeyEv(LayerEntry(k, key_status'), FALSE), KbdSync>>
        /\ last_key_pressed'[k] = 0
        /\ last_key_pressed' = last_key_pressed]_vars

\* A keyboard that never sent a press sends a release of keycode 48 while fn
\* and alt are held: BTN_MIDDLE is released.
C20_Witness ==
  /\ hw = SpuriousEnv
  /\ fifo_data = 4 * 48 + FIFO_EVENT_RELEASE
  /\ key_status = 6
  /\ emitted = <<ScanEv(48), KeyEv(274, FALSE), KbdSync>>
  /\ AllIdle

\* The mouse handler has just run and one of its delta reads failed.
MouseReadFailed == pc = "power" /\ (mouse_x = ReadFail \/ mouse_y = ReadFail)

\* C21: mouse read errors. In a tick whose status has the mouse bit set the
\* X register is read; the Y register is read iff the X read succeeded; the
\* handler gets to its reports only if both reads succeeded, so that after a
\* failed read nothing is reported on the mouse (no motion on either axis,
\* no sync) and no stored state changes. The tick goes on: the next step is
\* the power-button step, which toggles and reports iff bit 6 is set, then
\* the reschedule step, which arms the next tick with the configured
\* interval unless a cancel holds the work; the handler always gets there.
C21_MouseReadErrors ==
  /\ [][(pc = "mouse" /\ pc' # pc /\ mouse_x' # NotRead)
        => /\ mouse_y' = NotRead
           /\ emitted' = <<>>
           /\ driver' = driver
           /\ history' = history
           /\ pc' = (IF mouse_x' < 0 THEN "power" ELSE "mouse_y")]_vars
  /\ [][(mouse_y' # mouse_y /\ mouse_y' # NotRead) => (pc = "mouse_y" /\ mouse_x >= 0)]_vars
  /\ [][(pc = "mouse_y" /\ pc' # pc)
        => /\ mouse_y' # NotRead
           /\ mouse_x' = mouse_x
           /\ emitted' = <<>>
           /\ driver' = driver
           /\ history' = history
           /\ pc' = (IF mouse_y' < 0 THEN "power" ELSE "report_x")]_vars
  /\ []((mouse_x = ReadFail \/ mouse_y = ReadFail) => pc \notin {"report_x", "report_y"})
  /\ [][Len(SelectSeq(emitted', LAMBDA e : e.dev = "mouse")) > 0
        => (pc \in {"report_x", "report_y"} /\ mouse_x >= 0 /\ mouse_y >= 0)]_vars
  /\ [][(MouseReadFailed /\ pc' # pc)
        => /\ pc' = "reschedule"
           /\ (power_btn_pressed' # power_btn_pressed) <=> (int_status \div 64) % 2 = 1
           /\ (emitted' = <<KeyEv(KEY_POWER, ~power_btn_pressed), KbdSync>>)
                <=> (int_status \div 64) % 2 = 1]_vars
  /\ [][(pc = "reschedule" /\ pc' # pc)
        => /\ pc' = "idle"
           /\ ~canceling => (pending' /\ armed_ms' = poll_interval_ms)]_vars
  /\ (MouseReadFailed ~> (pc = "reschedule"))
  /\ (MouseReadFailed ~> (pc = "idle"))

\* X read 1, then the Y read failed: nothing is reported, the tick is at its
\* power-button step.
C21_Witness ==
  /\ pc = "power"
  /\ mouse_x = 1
  /\ mouse_y = ReadFail
  /\ emitted = <<>>
  /\ int_status = 127

\* C22: FIFO byte decoding. Every byte b in 0..255 read from REG_FIFO_ACCESS
\* is treated as event type b mod 4 and keycode b div 4: type 0 ends the
\* drain, type 2 is skipped, types 1 and 3 are forwarded as a press and a
\* release of keycode b div 4 (the key status is read, in the next step, iff
\* that keycode is below 53; a layer keycode is reported with that scan code
\* and the pressed value of the type; keycode 33 is reported as left ctrl).
\* End to end, with the modifier bits clear, byte 21 (0b00010101) reports
\* the press of keymap_normal[5], and byte 23 (0b00010111), processed while
\* that press is the last event of keycode 5, reports the release of the
\* same key.
C22_FifoByteDecoding ==
  /\ [](fifo_data \in {NotRead, ReadFail} \cup (0 .. 255))
  /\ [][LET b == fifo_data'
            t == b % 4
            k == b \div 4
        IN (FifoStep /\ b >= 0)
           => /\ key_status' = NotRead
              /\ t = 0 => (pc' = "mouse" /\ emitted' = <<>> /\ i' = i
                           /\ forwarded' = forwarded)
              /\ t = 2 => (pc' = "fifo" /\ emitted' = <<>> /\ i' = i + 1
                           /\ forwarded' = forwarded)
              /\ t \in {1, 3}
                   => /\ forwarded' = forwarded + 1
                      /\ emitted' = <<>>
                      /\ k < 53 => (pc' = "key" /\ i' = i)
                      /\ k >= 53 => (pc' = "fifo" /\ i' = i + 1)]_vars
  /\ [][LET b == fifo_data
            t == b % 4
            k == b \div 4
        IN (pc = "key" /\ pc' # pc)
           => /\ b >= 0 /\ t \in {1, 3} /\ k < 53
              /\ fifo_data' = b
              /\ key_status' # NotRead
              /\ pc' = "fifo" /\ i' = i + 1
              /\ (k \in LayerKeycodes /\ key_status' >= 0)
                   => /\ Len(emitted') = 3
                      /\ emitted'[1] = ScanEv(k)
                      /\ emitted'[2].type = "key"
                      /\ emitted'[2].value = (IF t = 1 THEN 1 ELSE 0)
              /\ (k = 33 /\ key_status' >= 0)
                   => emitted' = <<KeyEv(KEY_LEFTCTRL, t = 1), KbdSync>>]_vars
  /\ [][(EntryStep /\ fifo_data' = 21 /\ key_status' = 0)
        => emitted' = <<ScanEv(5), KeyEv(KeymapNormalTable[6], TRUE), KbdSync>>]_vars
  /\ [][(/\ last_event[5] = [key |-> KeymapNormalTable[6], value |-> 1]
         /\ EntryStep /\ fifo_data' = 23 /\ key_status' = 0)
        => emitted' = <<ScanEv(5), KeyEv(KeymapNormalTable[6], FALSE), KbdSync>>]_vars

\* The second entry of a drain is byte 23, read with the modifier bits
\* clear: KEY_9, the normal-layer key of keycode 5, is released.
C22_Witness ==
  /\ hw = KeysEnv({5}, TRUE)
  /\ i = 2
  /\ forwarded = 2
  /\ fifo_data = 23
  /\ key_status = 0
  /\ emitted = <<ScanEv(5), KeyEv(10, FALSE), KbdSync>>
  /\ last_event[5] = [key |-> 10, value |-> 0]
  /\ AllIdle

====
